---- MODULE Spec2Model ----
(***************************************************************************)
(* Beta distribution constructor (lib/ctor.js).                            *)
(*                                                                         *)
(* The state is the set of distribution instances that have been created,  *)
(* each holding the two closure variables `alpha` and `beta` captured by   *)
(* its accessors, together with the outcome of the last operation (the     *)
(* value it returned or the error it threw).                               *)
(***************************************************************************)
EXTENDS Integers, Sequences, FiniteSets, TLC

VARIABLES inst, ret

vars == <<inst, ret>>

(***************************************************************************)
(* Bounds of the model.                                                    *)
(***************************************************************************)
\* finite numbers range over -1 .. MaxNum
MaxNum == 2

\* the instance slots a caller can bind a created distribution to
Ids == {"p", "q"}

(***************************************************************************)
(* JavaScript values.  `type` is what `typeof` answers; `k` tells the      *)
(* values of one type apart; `n` is the magnitude of a number.             *)
(***************************************************************************)
Num(i) == [type |-> "number", k |-> "finite", n |-> i]
NaN == [type |-> "number", k |-> "nan", n |-> 0]
PInf == [type |-> "number", k |-> "infinite", n |-> 1]
NInf == [type |-> "number", k |-> "infinite", n |-> -1]
Str5 == [type |-> "string", k |-> "5", n |-> 0]
True == [type |-> "boolean", k |-> "true", n |-> 0]
False == [type |-> "boolean", k |-> "false", n |-> 0]
Undefined == [type |-> "undefined", k |-> "undefined", n |-> 0]
Null == [type |-> "object", k |-> "null", n |-> 0]
Obj == [type |-> "object", k |-> "Object", n |-> 0]
Arr == [type |-> "object", k |-> "Array", n |-> 0]
Fun == [type |-> "function", k |-> "noop", n |-> 0]

Numbers == {Num(i) : i \in (0 - 1) .. MaxNum} \cup {NaN, PInf, NInf}
NonNumbers == {Str5, True, False, Undefined, Null, Obj, Arr, Fun}
Values == Numbers \cup NonNumbers

\* ToNumber( value ): the number a relational operator compares a value as
ToNumber(v) ==
    CASE v.type = "number" -> v
      [] v.type = "string" -> Num(5)
      [] v.type = "boolean" -> IF v.k = "true" THEN Num(1) ELSE Num(0)
      [] v.type = "undefined" -> NaN
      [] v.type = "object" /\ v.k \in {"null", "Array"} -> Num(0)
      [] OTHER -> NaN

\* value > 0.0
GreaterThanZero(v) ==
    LET x == ToNumber(v)
    IN  \/ x.k = "finite" /\ x.n > 0
        \/ x.k = "infinite" /\ x.n > 0

\* a plausible slip: value >= 0.0
isNonNegative(v) ==
    /\ v.type = "number"
    /\ LET x == ToNumber(v) IN x.k # "nan" /\ x.n >= 0

\* a plausible slip: the typeof test left out
isPositiveLoose(v) == GreaterThanZero(v)

\* a plausible slip: only finite values accepted
isPositiveFinite(v) == v.type = "number" /\ v.k = "finite" /\ v.n > 0

\* isPositive( value ): a primitive number having a positive value
isPositive(v) == v.type = "number" /\ GreaterThanZero(v)

\* String( value ), as the `%s` specifier of format() renders a value
String(v) ==
    CASE v.type = "number" /\ v.k = "finite" -> ToString(v.n)
      [] v.type = "number" /\ v.k = "nan" -> "NaN"
      [] v.type = "number" /\ v.k = "infinite" ->
            IF v.n > 0 THEN "Infinity" ELSE "-Infinity"
      [] v.type = "object" /\ v.k = "Object" -> "[object Object]"
      [] v.type = "object" /\ v.k = "Array" -> ""
      [] v.type = "function" -> "function noop() {}"
      [] OTHER -> v.k

\* format( str, value ) for a format string ending in "Value: <%s>.", the
\* specifier replaced by String( value ).  The source quotes the value in
\* backquotes, which a TLA+ string cannot hold: angle brackets stand for them.
format(prefix, v) == prefix \o "<" \o String(v) \o ">."

FirstShapeMsg == "invalid argument. First shape parameter must be a positive number. Value: "
SecondShapeMsg == "invalid argument. Second shape parameter must be a positive number. Value: "
AssignMsg == "invalid assignment. Must be a positive number. Value: "

(***************************************************************************)
(* Outcomes of a call: a normal completion or a thrown TypeError.          *)
(***************************************************************************)
NoValue == [type |-> "none", k |-> "none", n |-> 0]

Return(v) == [outcome |-> "return", error |-> "none", msg |-> "", val |-> v]
ThrowTypeError(m) == [outcome |-> "throw", error |-> "TypeError", msg |-> m, val |-> NoValue]

(***************************************************************************)
(* The constructor.  arguments[ i ] is `undefined` beyond the length.      *)
(***************************************************************************)
\* a plausible slip: a missing argument defaulted to 1.0
ArgumentDefaulted(args, i) == IF i + 1 <= Len(args) THEN args[i + 1] ELSE Num(1)

Argument(args, i) == IF i + 1 <= Len(args) THEN args[i + 1] ELSE Undefined

\* a plausible slip: the wrong default for `beta`
BetaBodyWrongDefault(args) ==
    IF Len(args) # 0
    THEN LET alpha == Argument(args, 0)
             beta == Argument(args, 1)
         IN  IF ~isPositive(alpha)
             THEN ThrowTypeError(format(FirstShapeMsg, alpha))
             ELSE IF ~isPositive(beta)
                  THEN ThrowTypeError(format(SecondShapeMsg, beta))
                  ELSE Return([alpha |-> alpha, beta |-> beta])
    ELSE Return([alpha |-> Num(1), beta |-> Num(2)])

\* a plausible slip: the arguments read in the wrong order
BetaBodySwapped(args) ==
    IF Len(args) # 0
    THEN LET alpha == Argument(args, 1)
             beta == Argument(args, 0)
         IN  IF ~isPositive(alpha)
             THEN ThrowTypeError(format(FirstShapeMsg, alpha))
             ELSE IF ~isPositive(beta)
                  THEN ThrowTypeError(format(SecondShapeMsg, beta))
                  ELSE Return([alpha |-> alpha, beta |-> beta])
    ELSE Return([alpha |-> Num(1), beta |-> Num(1)])

\* a plausible slip: `beta` validated before `alpha`
BetaBodyBetaFirst(args) ==
    IF Len(args) # 0
    THEN LET alpha == Argument(args, 0)
             beta == Argument(args, 1)
         IN  IF ~isPositive(beta)
             THEN ThrowTypeError(format(SecondShapeMsg, beta))
             ELSE IF ~isPositive(alpha)
                  THEN ThrowTypeError(format(FirstShapeMsg, alpha))
                  ELSE Return([alpha |-> alpha, beta |-> beta])
    ELSE Return([alpha |-> Num(1), beta |-> Num(1)])

\* The body run with `this instanceof Beta`: the closure variables it ends
\* with, or the error it throws.
BetaBody(args) ==
    IF Len(args) # 0
    THEN LET alpha == Argument(args, 0)
             beta == Argument(args, 1)
         IN  IF ~isPositive(alpha)
             THEN ThrowTypeError(format(FirstShapeMsg, alpha))
             ELSE IF ~isPositive(beta)
                  THEN ThrowTypeError(format(SecondShapeMsg, beta))
                  ELSE Return([alpha |-> alpha, beta |-> beta])
    ELSE Return([alpha |-> Num(1), beta |-> Num(1)])

\* a plausible slip: the arguments not passed on when called without `new`
BetaDropsArguments(withNew, args) ==
    IF ~withNew THEN BetaBody(<<>>) ELSE BetaBody(args)

\* Beta(): called with `new` (withNew) or as a plain function.
Beta(withNew, args) ==
    IF ~withNew
    THEN IF Len(args) = 0
         THEN BetaBody(<<>>)
         ELSE BetaBody(<<Argument(args, 0), Argument(args, 1)>>)
    ELSE BetaBody(args)

(***************************************************************************)
(* The accessors defined on an instance.  `o` holds the closure variables  *)
(* `alpha` and `beta` of that instance.                                    *)
(***************************************************************************)
getAlpha(o) == o.alpha

getBeta(o) == o.beta

\* a plausible slip: the assignment made before the validation
setAlphaAssignFirst(o, value) ==
    IF ~isPositive(value)
    THEN [res |-> ThrowTypeError(format(AssignMsg, value)), obj |-> [o EXCEPT !.alpha = value]]
    ELSE [res |-> Return(Undefined), obj |-> [o EXCEPT !.alpha = value]]

\* a plausible slip: the variable validated instead of the value given
setAlphaValidatesOld(o, value) ==
    IF ~isPositive(o.alpha)
    THEN [res |-> ThrowTypeError(format(AssignMsg, value)), obj |-> o]
    ELSE [res |-> Return(Undefined), obj |-> [o EXCEPT !.alpha = value]]

\* a plausible slip: a valid value accepted and not assigned
setAlphaKeepsFirst(o, value) ==
    IF ~isPositive(value)
    THEN [res |-> ThrowTypeError(format(AssignMsg, value)), obj |-> o]
    ELSE [res |-> Return(Undefined), obj |-> o]

\* set( value ) of `alpha`: the outcome and the closure variables after it
setAlpha(o, value) ==
    IF ~isPositive(value)
    THEN [res |-> ThrowTypeError(format(AssignMsg, value)), obj |-> o]
    ELSE [res |-> Return(Undefined), obj |-> [o EXCEPT !.alpha = value]]

\* a plausible slip: the setter of `beta` assigning the variable `alpha`
setBetaWritesAlpha(o, value) ==
    IF ~isPositive(value)
    THEN [res |-> ThrowTypeError(format(AssignMsg, value)), obj |-> o]
    ELSE [res |-> Return(Undefined), obj |-> [o EXCEPT !.alpha = value]]

\* set( value ) of `beta`
setBeta(o, value) ==
    IF ~isPositive(value)
    THEN [res |-> ThrowTypeError(format(AssignMsg, value)), obj |-> o]
    ELSE [res |-> Return(Undefined), obj |-> [o EXCEPT !.beta = value]]

(***************************************************************************)
(* The functions of the packages the constructor delegates to are applied  *)
(* symbolically: the result of f( a, b ) is the term of f and ( a, b ).    *)
(***************************************************************************)
Apply(f, args) == [fn |-> f, of |-> args]

Derived == {"entropy", "kurtosis", "mean", "median", "mode", "skewness", "stdev", "variance"}

\* a plausible slip: one getter passing ( this.beta, this.alpha )
derivedGetSwapped(prop, o) ==
    IF prop = "mean"
    THEN Apply("mean", <<o.beta, o.alpha>>)
    ELSE Apply(prop, <<o.alpha, o.beta>>)

\* the getters on Beta.prototype, each calling its function with
\* ( this.alpha, this.beta )
derivedGet(prop, o) ==
    CASE prop = "entropy" -> Apply("entropy", <<getAlpha(o), getBeta(o)>>)
      [] prop = "kurtosis" -> Apply("kurtosis", <<getAlpha(o), getBeta(o)>>)
      [] prop = "mean" -> Apply("mean", <<getAlpha(o), getBeta(o)>>)
      [] prop = "median" -> Apply("median", <<getAlpha(o), getBeta(o)>>)
      [] prop = "mode" -> Apply("mode", <<getAlpha(o), getBeta(o)>>)
      [] prop = "skewness" -> Apply("skewness", <<getAlpha(o), getBeta(o)>>)
      [] prop = "stdev" -> Apply("stdev", <<getAlpha(o), getBeta(o)>>)
      [] prop = "variance" -> Apply("variance", <<getAlpha(o), getBeta(o)>>)

Methods == {"cdf", "logcdf", "logpdf", "mgf", "pdf", "quantile"}

betaCDF(o, x) == Apply("cdf", <<x, getAlpha(o), getBeta(o)>>)
betaLogCDF(o, x) == Apply("logcdf", <<x, getAlpha(o), getBeta(o)>>)
betaLogPDF(o, x) == Apply("logpdf", <<x, getAlpha(o), getBeta(o)>>)
betaMGF(o, t) == Apply("mgf", <<t, getAlpha(o), getBeta(o)>>)
\* a plausible slip: pdf wired to the function of logpdf
betaPDFMiswired(o, x) == Apply("logpdf", <<x, getAlpha(o), getBeta(o)>>)

betaPDF(o, x) == Apply("pdf", <<x, getAlpha(o), getBeta(o)>>)
betaQuantile(o, p) == Apply("quantile", <<p, getAlpha(o), getBeta(o)>>)

\* the methods on Beta.prototype
method(m, o, x) ==
    CASE m = "cdf" -> betaCDF(o, x)
      [] m = "logcdf" -> betaLogCDF(o, x)
      [] m = "logpdf" -> betaLogPDF(o, x)
      [] m = "mgf" -> betaMGF(o, x)
      [] m = "pdf" -> betaPDF(o, x)
      [] m = "quantile" -> betaQuantile(o, x)

(***************************************************************************)
(* Property access on an instance `o`: the outcome of the access and the   *)
(* instance after it.  `o.own` holds the data properties an assignment     *)
(* has created on the instance itself, which shadow the prototype's.       *)
(***************************************************************************)
NoOwn == [d \in Derived |-> NoValue]

\* a plausible slip: the property defined as a writable data property
protoDescriptorWritable(prop) ==
    [kind |-> "data", set |-> FALSE, writable |-> TRUE,
     configurable |-> FALSE, enumerable |-> FALSE]

\* setReadOnlyAccessor( Beta.prototype, prop, getter ): an accessor with a
\* getter and no setter, neither configurable nor enumerable
protoDescriptor(prop) ==
    [kind |-> "accessor", set |-> FALSE, writable |-> FALSE,
     configurable |-> FALSE, enumerable |-> FALSE]

\* inst.alpha, inst.beta
readShape(o, name) ==
    [res |-> Return(IF name = "alpha" THEN getAlpha(o) ELSE getBeta(o)), obj |-> o]

\* inst.<prop>, a derived property: an own property shadows the getter
readDerived(o, prop) ==
    [res |-> Return(IF o.own[prop] # NoValue THEN o.own[prop] ELSE derivedGet(prop, o)),
     obj |-> o]

ReadOnlyMsg == "Cannot set property which has only a getter"

\* inst.<prop> = v, a derived property.  An accessor without a setter, or a
\* data property that is not writable, refuses the assignment: a TypeError
\* in strict code, nothing in sloppy code.
assignDerived(o, prop, v, strict) ==
    LET d == protoDescriptor(prop)
        refused == \/ d.kind = "accessor" /\ ~d.set
                   \/ d.kind = "data" /\ ~d.writable
    IN  IF refused
        THEN [res |-> IF strict THEN ThrowTypeError(ReadOnlyMsg) ELSE Return(v), obj |-> o]
        ELSE [res |-> Return(v), obj |-> [o EXCEPT !.own[prop] = v]]

\* a plausible slip: the argument validated by the method
callMethodValidating(o, m, x) ==
    IF x.type # "number" \/ x.k # "finite"
    THEN [res |-> ThrowTypeError(format(FirstShapeMsg, x)), obj |-> o]
    ELSE [res |-> Return(method(m, o, x)), obj |-> o]

\* a plausible slip: the argument kept on the instance
callMethodKeeping(o, m, x) ==
    [res |-> Return(method(m, o, x)), obj |-> [o EXCEPT !.alpha = x]]

\* inst.<m>( x )
callMethod(o, m, x) == [res |-> Return(method(m, o, x)), obj |-> o]

(***************************************************************************)
(* The own properties `alpha` and `beta` of an instance.                   *)
(***************************************************************************)
\* a plausible slip: the properties defined configurable
shapeDescriptorConfigurable(name) ==
    [kind |-> "accessor", set |-> TRUE, writable |-> FALSE,
     configurable |-> TRUE, enumerable |-> TRUE]

\* the descriptor Beta defines `alpha` and `beta` with: an accessor with a
\* getter and a setter, enumerable and not configurable
shapeDescriptor(name) ==
    [kind |-> "accessor", set |-> TRUE, writable |-> FALSE,
     configurable |-> FALSE, enumerable |-> TRUE]

RedefineMsg == "Cannot redefine property: "
DeleteMsg == "Cannot delete property: "

\* defineProperty( o, name, descriptor ) with a descriptor other than the
\* one the property has, under which the property holds v.  A property the
\* object has and that is not configurable cannot be redefined.
defineProperty(o, name, v) ==
    IF o.live /\ ~shapeDescriptor(name).configurable
    THEN [res |-> ThrowTypeError(RedefineMsg \o name), obj |-> o]
    ELSE [res |-> Return(NoValue),
          obj |-> IF name = "alpha"
                  THEN [o EXCEPT !.alpha = v]
                  ELSE [o EXCEPT !.beta = v]]

\* delete o.<name>: refused for a property that is not configurable, with a
\* TypeError in strict code and the value false in sloppy code
deleteProperty(o, name, strict) ==
    IF ~shapeDescriptor(name).configurable
    THEN [res |-> IF strict THEN ThrowTypeError(DeleteMsg \o name) ELSE Return(False),
          obj |-> o]
    ELSE [res |-> Return(True),
          obj |-> IF name = "alpha"
                  THEN [o EXCEPT !.alpha = Undefined]
                  ELSE [o EXCEPT !.beta = Undefined]]

\* Beta.call( o, ...args ) on an instance o that Beta has constructed: the
\* body validates the arguments, then defines `alpha` and then `beta` on o
\* with accessors over new variables.
BetaCall(o, args) ==
    LET r == BetaBody(args)
    IN  IF r.outcome = "throw"
        THEN [res |-> r, obj |-> o]
        ELSE LET a == defineProperty(o, "alpha", r.val.alpha)
             IN  IF a.res.outcome = "throw"
                 THEN a
                 ELSE LET b == defineProperty(a.obj, "beta", r.val.beta)
                      IN  IF b.res.outcome = "throw"
                          THEN b
                          ELSE [res |-> Return(NoValue), obj |-> b.obj]

\* a plausible slip: `alpha` and `beta` declared outside the constructor,
\* one pair of variables for all instances
StoreShared(heap, i, o) ==
    [j \in DOMAIN heap |-> IF j = i \/ heap[j].live THEN o ELSE heap[j]]

\* `alpha` and `beta` are variables of one call of Beta: what an accessor
\* of instance i assigns is seen by the accessors of instance i alone
Store(heap, i, o) == [heap EXCEPT ![i] = o]

(***************************************************************************)
(* State machine.                                                          *)
(***************************************************************************)
NoInstance == [live |-> FALSE, alpha |-> NoValue, beta |-> NoValue, own |-> NoOwn]

\* the argument lists a caller constructs with: none, one or two arguments
ArgLists == {<<>>} \cup {<<a>> : a \in Values} \cup {<<a, b>> : a \in Values, b \in Values}

\* the scalars a caller evaluates the methods at
Scalars == {Num(0 - 1), Num(0), Num(1), Num(2), NaN, PInf}

\* the values a caller tries to assign to a derived property
Assigned == {Num(2), Str5}

Outcome(op, self, name, args, r) ==
    [op |-> op, self |-> self, name |-> name, args |-> args,
     outcome |-> r.outcome, error |-> r.error, msg |-> r.msg, val |-> r.val]

Init ==
    /\ inst = [i \in Ids |-> NoInstance]
    /\ ret = Outcome("none", "none", "none", <<>>, Return(NoValue))

\* new Beta( ...args ) or Beta( ...args ), the result bound to a free slot
\* among `slots`
Construct(slots, withNew, args) ==
    LET r == Beta(withNew, args)
    IN  IF r.outcome = "throw"
        THEN /\ ret' = Outcome("construct", "none", "Beta", args, r)
             /\ UNCHANGED inst
        ELSE \E i \in slots :
                /\ ~inst[i].live
                /\ inst' = Store(inst, i,
                              [live |-> TRUE, alpha |-> r.val.alpha,
                               beta |-> r.val.beta, own |-> NoOwn])
                /\ ret' = Outcome("construct", i, "Beta", args, Return(NoValue))

\* v = inst.alpha
ReadAlpha(i) ==
    /\ inst[i].live
    /\ LET g == readShape(inst[i], "alpha")
       IN  /\ inst' = Store(inst, i, g.obj)
           /\ ret' = Outcome("get", i, "alpha", <<>>, g.res)

\* v = inst.beta
ReadBeta(i) ==
    /\ inst[i].live
    /\ LET g == readShape(inst[i], "beta")
       IN  /\ inst' = Store(inst, i, g.obj)
           /\ ret' = Outcome("get", i, "beta", <<>>, g.res)

\* inst.alpha = v
WriteAlpha(i, v) ==
    /\ inst[i].live
    /\ LET s == setAlpha(inst[i], v)
       IN  /\ inst' = Store(inst, i, s.obj)
           /\ ret' = Outcome("set", i, "alpha", <<v>>, s.res)

\* inst.beta = v
WriteBeta(i, v) ==
    /\ inst[i].live
    /\ LET s == setBeta(inst[i], v)
       IN  /\ inst' = Store(inst, i, s.obj)
           /\ ret' = Outcome("set", i, "beta", <<v>>, s.res)

\* v = inst.<prop> for a derived property
ReadDerived(i, prop) ==
    /\ inst[i].live
    /\ LET g == readDerived(inst[i], prop)
       IN  /\ inst' = Store(inst, i, g.obj)
           /\ ret' = Outcome("get", i, prop, <<>>, g.res)

\* inst.<prop> = v for a derived property, in strict or in sloppy code
AssignDerived(i, prop, v, strict) ==
    /\ inst[i].live
    /\ LET s == assignDerived(inst[i], prop, v, strict)
       IN  /\ inst' = Store(inst, i, s.obj)
           /\ ret' = Outcome("assign", i, prop, <<v>>, s.res)

\* v = inst.<m>( x )
CallMethod(i, m, x) ==
    /\ inst[i].live
    /\ LET c == callMethod(inst[i], m, x)
       IN  /\ inst' = Store(inst, i, c.obj)
           /\ ret' = Outcome("call", i, m, <<x>>, c.res)

\* the argument lists a caller runs the constructor again with
AgainArgLists ==
    {<<>>, <<Num(2)>>, <<Num(2), Num(1)>>, <<Num(0), Num(1)>>, <<Num(1), NaN>>}

\* Beta.call( inst, ...args )
Reconstruct(i, args) ==
    /\ inst[i].live
    /\ LET c == BetaCall(inst[i], args)
       IN  /\ inst' = Store(inst, i, c.obj)
           /\ ret' = Outcome("reconstruct", i, "Beta", args, c.res)

\* Object.defineProperty( inst, name, { 'value': v } )
Redefine(i, name, v) ==
    /\ inst[i].live
    /\ LET d == defineProperty(inst[i], name, v)
       IN  /\ inst' = Store(inst, i, d.obj)
           /\ ret' = Outcome("define", i, name, <<v>>, d.res)

\* delete inst.<name>, in strict or in sloppy code
Delete(i, name, strict) ==
    /\ inst[i].live
    /\ LET d == deleteProperty(inst[i], name, strict)
       IN  /\ inst' = Store(inst, i, d.obj)
           /\ ret' = Outcome("delete", i, name, <<>>, d.res)

\* one caller holding one distribution
One == {"p"}

Next ==
    \/ \E w \in BOOLEAN, args \in ArgLists : Construct(One, w, args)
    \/ \E i \in One : ReadAlpha(i)
    \/ \E i \in One : ReadBeta(i)
    \/ \E i \in One, v \in Values : WriteAlpha(i, v)
    \/ \E i \in One, v \in Values : WriteBeta(i, v)
    \/ \E i \in One, prop \in Derived : ReadDerived(i, prop)
    \/ \E i \in One, prop \in Derived, v \in Assigned, strict \in BOOLEAN :
          AssignDerived(i, prop, v, strict)
    \/ \E i \in One, m \in Methods, x \in Scalars : CallMethod(i, m, x)
    \/ \E i \in One, args \in AgainArgLists : Reconstruct(i, args)
    \/ \E i \in One, name \in {"alpha", "beta"}, v \in Assigned : Redefine(i, name, v)
    \/ \E i \in One, name \in {"alpha", "beta"}, strict \in BOOLEAN :
          Delete(i, name, strict)

Spec == Init /\ [][Next]_vars

\* two distributions side by side, constructed and written with a few values
TwoArgLists ==
    {<<>>, <<Num(2)>>, <<Num(2), Num(1)>>, <<Num(1), Num(2)>>,
     <<Num(0), Num(1)>>, <<Num(1), Str5>>}

TwoValues == {Num(1), Num(2), Num(0), NaN}

NextTwo ==
    \/ \E w \in BOOLEAN, args \in TwoArgLists : Construct(Ids, w, args)
    \/ \E i \in Ids : ReadAlpha(i)
    \/ \E i \in Ids : ReadBeta(i)
    \/ \E i \in Ids, v \in TwoValues : WriteAlpha(i, v)
    \/ \E i \in Ids, v \in TwoValues : WriteBeta(i, v)
    \/ \E i \in Ids, prop \in Derived : ReadDerived(i, prop)
    \/ \E i \in Ids, prop \in Derived, v \in Assigned, strict \in BOOLEAN :
          AssignDerived(i, prop, v, strict)
    \/ \E i \in Ids, m \in Methods, x \in Scalars : CallMethod(i, m, x)

SpecTwo == Init /\ [][NextTwo]_vars

(***************************************************************************)
(* Properties.                                                             *)
(***************************************************************************)
\* the positive numbers of the model, listed
Positive == {Num(i) : i \in 1 .. MaxNum} \cup {PInf}

ThrewTypeError == ret.outcome = "throw" /\ ret.error = "TypeError"

\* C1: in every reachable state, every existing instance's alpha and beta
\* are numbers strictly greater than 0: never NaN, zero, negative or a
\* non-number.
C1_ShapesAlwaysPositive ==
    \A i \in Ids :
        inst[i].live =>
            /\ getAlpha(inst[i]).type = "number"
            /\ getAlpha(inst[i]).k # "nan"
            /\ getAlpha(inst[i]).n > 0
            /\ getBeta(inst[i]).type = "number"
            /\ getBeta(inst[i]).k # "nan"
            /\ getBeta(inst[i]).n > 0

\* C1 witness: an instance with non-default parameters right after a
\* rejected write of zero.
C1_Witness ==
    /\ ret.op = "set" /\ ret.args = <<Num(0)>> /\ ret.outcome = "throw"
    /\ inst["p"].live /\ inst["p"].alpha = Num(2) /\ inst["p"].beta = PInf

\* C2: a write of a value that is not a positive number to alpha or beta
\* throws, and both alpha and beta read after it what they read before it.
C2_InvalidWriteRejected ==
    [][(ret'.op = "set" /\ ret'.args[1] \notin Positive) =>
          /\ ret'.outcome = "throw"
          /\ getAlpha(inst'[ret'.self]) = getAlpha(inst[ret'.self])
          /\ getBeta(inst'[ret'.self]) = getBeta(inst[ret'.self])]_vars

\* C2 witness: a rejected write of -1 to alpha of an instance holding (2, 2).
C2_Witness ==
    /\ ret.op = "set" /\ ret.name = "alpha" /\ ret.args = <<Num(0 - 1)>>
    /\ ThrewTypeError
    /\ inst["p"].alpha = Num(2) /\ inst["p"].beta = Num(2)

\* C3: constructing with zero arguments yields an instance whose alpha
\* reads 1.0 and whose beta reads 1.0.
C3_DefaultsAreOne ==
    (ret.op = "construct" /\ ret.args = <<>>) =>
        /\ ret.outcome = "return"
        /\ ret.self \in Ids
        /\ inst[ret.self].live
        /\ getAlpha(inst[ret.self]) = Num(1)
        /\ getBeta(inst[ret.self]) = Num(1)

\* C3 witness: a construction with no arguments has returned.
C3_Witness ==
    ret.op = "construct" /\ ret.args = <<>> /\ ret.outcome = "return" /\ inst["p"].live

\* C4: constructing with two positive numbers (a, b) succeeds and yields an
\* instance whose alpha reads a and whose beta reads b.
C4_ArgumentsStored ==
    (/\ ret.op = "construct" /\ Len(ret.args) = 2
     /\ ret.args[1] \in Positive /\ ret.args[2] \in Positive) =>
        /\ ret.outcome = "return"
        /\ ret.self \in Ids
        /\ inst[ret.self].live
        /\ getAlpha(inst[ret.self]) = ret.args[1]
        /\ getBeta(inst[ret.self]) = ret.args[2]

\* C4 witness: new Beta( 2, 1 ) has returned.
C4_Witness ==
    /\ ret.op = "construct" /\ ret.args = <<Num(2), Num(1)>> /\ ret.outcome = "return"
    /\ inst["p"].alpha = Num(2) /\ inst["p"].beta = Num(1)

\* C5: constructing with two arguments of which either is not a positive
\* primitive number throws a TypeError and produces no instance.
C5_InvalidArgumentsRejected ==
    [][(/\ ret'.op = "construct" /\ Len(ret'.args) = 2
        /\ (ret'.args[1] \notin Positive \/ ret'.args[2] \notin Positive)) =>
          /\ ret'.outcome = "throw" /\ ret'.error = "TypeError"
          /\ ret'.self = "none"
          /\ inst' = inst]_vars

\* C5 witness: new Beta( 2, '5' ) has thrown.
C5_Witness ==
    ret.op = "construct" /\ ret.args = <<Num(2), Str5>> /\ ThrewTypeError

\* C6: constructing with exactly one argument throws for every value of
\* the argument, a positive number included, and produces no instance.
C6_OneArgumentRejected ==
    (ret.op = "construct" /\ Len(ret.args) = 1) =>
        ret.outcome = "throw" /\ ret.self = "none"

\* C6 witness: new Beta( 2 ) has thrown.
C6_Witness ==
    ret.op = "construct" /\ ret.args = <<Num(2)>> /\ ret.outcome = "throw"

\* the last operation passed +Infinity as a shape parameter
GaveInfinity ==
    \/ ret.op = "set" /\ ret.args = <<PInf>>
    \/ ret.op = "construct" /\ Len(ret.args) = 2 /\ PInf \in {ret.args[1], ret.args[2]}

\* C7 as stated: +Infinity given as alpha or beta at construction, or
\* assigned to alpha or beta afterwards, is rejected with an error, and no
\* instance ever holds a non-finite shape parameter.
C7_NonFiniteRejected ==
    /\ GaveInfinity => ret.outcome = "throw"
    /\ \A i \in Ids :
          inst[i].live =>
              getAlpha(inst[i]).k = "finite" /\ getBeta(inst[i]).k = "finite"

\* C7 amended: shape parameters are validated as positive numbers, not as
\* finite ones.  +Infinity is accepted: a write of +Infinity succeeds and is
\* what the parameter reads afterwards, and a construction with +Infinity
\* fails only if the other argument is not a positive number.  NaN and
\* -Infinity are rejected at construction and on a write, so an instance
\* never holds NaN or -Infinity.
C7_InfinityAccepted ==
    /\ (ret.op = "set" /\ ret.args = <<PInf>>) =>
          /\ ret.outcome = "return"
          /\ (ret.name = "alpha" => getAlpha(inst[ret.self]) = PInf)
          /\ (ret.name = "beta" => getBeta(inst[ret.self]) = PInf)
    /\ (/\ ret.op = "construct" /\ Len(ret.args) = 2
        /\ PInf \in {ret.args[1], ret.args[2]}) =>
          (ret.outcome = "return" <=>
              (ret.args[1] \in Positive /\ ret.args[2] \in Positive))
    /\ (ret.op = "set" /\ ret.args[1] \in {NaN, NInf}) => ThrewTypeError
    /\ (/\ ret.op = "construct" /\ Len(ret.args) = 2
        /\ {ret.args[1], ret.args[2]} \cap {NaN, NInf} # {}) => ThrewTypeError
    /\ \A i \in Ids :
          inst[i].live =>
              {getAlpha(inst[i]), getBeta(inst[i])} \cap {NaN, NInf} = {}

\* C7 witness: an instance constructed with +Infinity as alpha, after a
\* write of +Infinity to beta.
C7_Witness ==
    /\ ret.op = "set" /\ ret.name = "beta" /\ ret.args = <<PInf>>
    /\ ret.outcome = "return"
    /\ inst["p"].alpha = PInf /\ inst["p"].beta = PInf

\* C8: a failed construction with arguments names the first shape
\* parameter, with the value given for it, whenever alpha is invalid
\* (whatever beta is), and the second shape parameter, with the value given
\* for it, exactly when alpha is valid and beta is invalid.
C8_ErrorNamesParameter ==
    (ret.op = "construct" /\ Len(ret.args) > 0 /\ ret.outcome = "throw") =>
        LET a == ret.args[1]
            b == IF Len(ret.args) > 1 THEN ret.args[2] ELSE Undefined
        IN  /\ a \notin Positive => ret.msg = format(FirstShapeMsg, a)
            /\ a \in Positive =>
                  /\ b \notin Positive
                  /\ ret.msg = format(SecondShapeMsg, b)
            /\ ret.args = <<NaN, Null>> =>
                  ret.msg = "invalid argument. First shape parameter must be a positive number. Value: <NaN>."
            /\ ret.args = <<Num(2), Num(0)>> =>
                  ret.msg = "invalid argument. Second shape parameter must be a positive number. Value: <0>."

\* C8 witness: new Beta( NaN, null ), both arguments invalid, has thrown.
C8_Witness ==
    ret.op = "construct" /\ ret.args = <<NaN, Null>> /\ ret.outcome = "throw"

\* C9: a write of a positive number v to alpha succeeds, makes alpha read v
\* and leaves beta unchanged; a write of v to beta makes beta read v and
\* leaves alpha unchanged.
C9_ValidWriteStored ==
    [][(ret'.op = "set" /\ ret'.args[1] \in Positive) =>
          /\ ret'.outcome = "return"
          /\ ret'.name = "alpha" =>
                /\ getAlpha(inst'[ret'.self]) = ret'.args[1]
                /\ getBeta(inst'[ret'.self]) = getBeta(inst[ret'.self])
          /\ ret'.name = "beta" =>
                /\ getBeta(inst'[ret'.self]) = ret'.args[1]
                /\ getAlpha(inst'[ret'.self]) = getAlpha(inst[ret'.self])]_vars

\* C9 witness: a write of 2 to beta of an instance whose alpha is +Infinity.
C9_Witness ==
    /\ ret.op = "set" /\ ret.name = "beta" /\ ret.args = <<Num(2)>>
    /\ ret.outcome = "return"
    /\ inst["p"].alpha = PInf /\ inst["p"].beta = Num(2)

\* C10: every read of a derived property returns its formula applied to
\* the values alpha and beta hold at the moment of the read.
C10_DerivedFromCurrent ==
    (ret.op = "get" /\ ret.name \in Derived) =>
        /\ ret.outcome = "return"
        /\ ret.val = Apply(ret.name, <<getAlpha(inst[ret.self]), getBeta(inst[ret.self])>>)

\* C10 witness: mean read on an instance holding (2, 1).
C10_Witness ==
    /\ ret.op = "get" /\ ret.name = "mean"
    /\ inst["p"].alpha = Num(2) /\ inst["p"].beta = Num(1)

\* C11: every evaluator method called with x returns the result of the
\* function of the same name called with ( x, alpha, beta ): the argument
\* first, the current alpha second, the current beta third.
C11_MethodsDelegate ==
    (ret.op = "call") =>
        /\ ret.name \in Methods
        /\ ret.val.fn = ret.name
        /\ ret.val.of = <<ret.args[1], getAlpha(inst[ret.self]), getBeta(inst[ret.self])>>

\* C11 witness: pdf( 0 ) called on an instance holding (2, 1).
C11_Witness ==
    /\ ret.op = "call" /\ ret.name = "pdf" /\ ret.args = <<Num(0)>>
    /\ inst["p"].alpha = Num(2) /\ inst["p"].beta = Num(1)

\* C12: an attempt to assign a value to a derived property changes neither
\* what that property or any other derived property returns afterwards nor
\* alpha or beta.
C12_DerivedReadOnly ==
    [][(ret'.op = "assign") =>
          /\ ret'.name \in Derived
          /\ getAlpha(inst'[ret'.self]) = getAlpha(inst[ret'.self])
          /\ getBeta(inst'[ret'.self]) = getBeta(inst[ret'.self])
          /\ \A d \in Derived :
                /\ readDerived(inst'[ret'.self], d).res
                      = readDerived(inst[ret'.self], d).res
                /\ readDerived(inst'[ret'.self], d).res.val
                      = Apply(d, <<getAlpha(inst[ret'.self]), getBeta(inst[ret'.self])>>)]_vars

\* C12 witness: mean = 2 tried in sloppy code, where nothing is thrown, on
\* an instance holding (2, 1).
C12_Witness ==
    /\ ret.op = "assign" /\ ret.name = "mean" /\ ret.args = <<Num(2)>>
    /\ ret.outcome = "return"
    /\ inst["p"].alpha = Num(2) /\ inst["p"].beta = Num(1)

\* C13: an evaluator method never throws, whatever the scalar it is called
\* with (in the support, outside it, infinite or NaN), and passes the
\* argument on as it is given, without validating it.
C13_MethodsNeverThrow ==
    (ret.op = "call") =>
        /\ ret.outcome = "return"
        /\ ret.error = "none"
        /\ ret.val.of[1] = ret.args[1]

\* C13 witness: quantile( NaN ) has returned.
C13_Witness ==
    ret.op = "call" /\ ret.name = "quantile" /\ ret.args = <<NaN>> /\ ret.outcome = "return"

\* C14: calling Beta without `new` gives what calling it with `new` gives,
\* for every argument list: the same error, or an instance holding the same
\* alpha and beta.  The outcome of every construction, however it was
\* called, is the outcome of both ways of calling.
C14_NewOptional ==
    (ret.op = "construct") =>
        \A w \in BOOLEAN :
            LET r == Beta(w, ret.args)
            IN  /\ r.outcome = ret.outcome
                /\ r.error = ret.error
                /\ r.msg = ret.msg
                /\ ret.outcome = "return" =>
                      /\ getAlpha(inst[ret.self]) = r.val.alpha
                      /\ getBeta(inst[ret.self]) = r.val.beta

\* C14 witness: a construction with ( 2, +Infinity ) has returned.
C14_Witness ==
    /\ ret.op = "construct" /\ ret.args = <<Num(2), PInf>> /\ ret.outcome = "return"
    /\ inst["p"].alpha = Num(2) /\ inst["p"].beta = PInf

\* C17: a write is validated with the rule of the constructor and with
\* nothing else.  A value written to alpha (to beta) is accepted if and only
\* if the constructor accepts it as its first (second) argument; and in
\* every reachable state, whatever the instance holds and whatever writes
\* succeeded or failed before, each setter accepts exactly the values the
\* constructor accepts.
C17_WritesValidatedAlike ==
    /\ (ret.op = "set" /\ ret.name = "alpha") =>
          (ret.outcome = "return" <=>
              Beta(TRUE, <<ret.args[1], Num(1)>>).outcome = "return")
    /\ (ret.op = "set" /\ ret.name = "beta") =>
          (ret.outcome = "return" <=>
              Beta(TRUE, <<Num(1), ret.args[1]>>).outcome = "return")
    /\ \A i \in Ids :
          inst[i].live =>
              \A v \in Values :
                  /\ setAlpha(inst[i], v).res.outcome
                        = Beta(TRUE, <<v, Num(1)>>).outcome
                  /\ setBeta(inst[i], v).res.outcome
                        = Beta(TRUE, <<Num(1), v>>).outcome

\* C17 witness: an instance holding (1, 2) right after a rejected write of
\* '5' to beta.
C17_Witness ==
    /\ ret.op = "set" /\ ret.name = "beta" /\ ret.args = <<Str5>>
    /\ ret.outcome = "throw"
    /\ inst["p"].alpha = Num(1) /\ inst["p"].beta = Num(2)

\* C18: reading alpha, beta or a derived property, and calling an evaluator
\* method with any argument, leaves the instance as it was: alpha, beta and
\* everything else it holds.
C18_ReadsChangeNothing ==
    [][(ret'.op \in {"get", "call"}) =>
          /\ inst' = inst
          /\ getAlpha(inst'[ret'.self]) = getAlpha(inst[ret'.self])
          /\ getBeta(inst'[ret'.self]) = getBeta(inst[ret'.self])]_vars

\* C18 witness: mgf( +Infinity ) called on an instance holding (2, 2).
C18_Witness ==
    /\ ret.op = "call" /\ ret.name = "mgf" /\ ret.args = <<PInf>>
    /\ inst["p"].alpha = Num(2) /\ inst["p"].beta = Num(2)

\* the last operation was a write of `name` on instance i that did not throw
WroteTo(r, i, name) ==
    r.op = "set" /\ r.self = i /\ r.name = name /\ r.outcome = "return"

\* C19: an operation on one instance, and the construction of a further
\* instance, successful or failed, changes nothing of another instance:
\* not its alpha or beta, nor what its derived properties and evaluator
\* methods return.
C19_InstancesIndependent ==
    [][\A j \in Ids :
          (inst[j].live /\ ret'.self # j) =>
              /\ inst'[j] = inst[j]
              /\ getAlpha(inst'[j]) = getAlpha(inst[j])
              /\ getBeta(inst'[j]) = getBeta(inst[j])
              /\ \A d \in Derived :
                    readDerived(inst'[j], d).res = readDerived(inst[j], d).res
              /\ \A m \in Methods :
                    callMethod(inst'[j], m, Num(1)).res = callMethod(inst[j], m, Num(1)).res]_vars

\* C19 witness: two instances holding (1, 1) and (2, 2), the second just
\* written.
C19_Witness ==
    /\ inst["p"].live /\ inst["q"].live
    /\ inst["p"].alpha = Num(1) /\ inst["p"].beta = Num(1)
    /\ inst["q"].alpha = Num(2) /\ inst["q"].beta = Num(2)
    /\ WroteTo(ret, "q", "beta")

\* C20: last successful write wins.  In every step, alpha of an existing
\* instance becomes the value written if the step is a write to its alpha
\* that did not throw, and stays what it was in every other step (a failed
\* write, a write to beta, a read, an evaluator call, a construction); the
\* same for beta.  A created instance starts with the constructor's
\* arguments, or 1.0 without arguments.
C20_LastWriteWins ==
    [][\A i \in Ids :
          /\ inst[i].live =>
                /\ getAlpha(inst'[i]) =
                      IF WroteTo(ret', i, "alpha") THEN ret'.args[1] ELSE getAlpha(inst[i])
                /\ getBeta(inst'[i]) =
                      IF WroteTo(ret', i, "beta") THEN ret'.args[1] ELSE getBeta(inst[i])
          /\ (~inst[i].live /\ inst'[i].live) =>
                /\ ret'.op = "construct" /\ ret'.self = i
                /\ getAlpha(inst'[i]) = IF ret'.args = <<>> THEN Num(1) ELSE ret'.args[1]
                /\ getBeta(inst'[i]) = IF ret'.args = <<>> THEN Num(1) ELSE ret'.args[2]]_vars

\* C20 witness: alpha still +Infinity right after a rejected write of NaN.
C20_Witness ==
    /\ ret.op = "set" /\ ret.name = "alpha" /\ ret.args = <<NaN>>
    /\ ret.outcome = "throw"
    /\ inst["p"].alpha = PInf /\ inst["p"].beta = Num(1)

\* C21: the shape parameters of an existing instance change only through
\* the validated setters.  Running the constructor again on a constructed
\* instance throws, with valid, invalid or no arguments; redefining `alpha`
\* or `beta` throws; deleting one of them is refused; each leaves the
\* instance as it was.  A step that changes alpha or beta of an existing
\* instance is a write of a positive number to that parameter.
C21_OnlySettersChangeShapes ==
    [][/\ (ret'.op \in {"reconstruct", "define"}) =>
             /\ ret'.outcome = "throw" /\ ret'.error = "TypeError"
             /\ inst' = inst
       /\ (ret'.op = "delete") =>
             /\ ret'.outcome = "throw" \/ ret'.val = False
             /\ inst' = inst
       /\ \A i \in Ids :
             inst[i].live =>
                 /\ inst'[i].live
                 /\ getAlpha(inst'[i]) # getAlpha(inst[i]) =>
                       /\ WroteTo(ret', i, "alpha")
                       /\ ret'.args[1] \in Positive
                       /\ getAlpha(inst'[i]) = ret'.args[1]
                 /\ getBeta(inst'[i]) # getBeta(inst[i]) =>
                       /\ WroteTo(ret', i, "beta")
                       /\ ret'.args[1] \in Positive
                       /\ getBeta(inst'[i]) = ret'.args[1]]_vars

\* C21 witness: Beta.call( inst, 2, 1 ), with valid arguments, has thrown
\* on an instance that holds (1, 2).
C21_Witness ==
    /\ ret.op = "reconstruct" /\ ret.args = <<Num(2), Num(1)>>
    /\ ret.outcome = "throw"
    /\ inst["p"].alpha = Num(1) /\ inst["p"].beta = Num(2)

====
